---- MODULE Spec2Model ----
(***************************************************************************)
(* A model of the RAG documentation validator (tooling/validate-docs) and  *)
(* of the heading clean-up script.  Text is a sequence of one-character    *)
(* strings, so that every length, split and pattern match is computed on   *)
(* characters, as the Python code computes it.                             *)
(***************************************************************************)
EXTENDS Integers, Sequences, FiniteSets, TLC

VARIABLES
  pc,           \* main()'s position: "start", "scan", "summary", "exited"
  docs_dir,     \* whether the docs directory exists (Path.exists)
  fs,           \* the files under the docs root: path -> content, or Unreadable
  md_files,     \* sorted(md_files) of validate_all, the files still to validate
  results,      \* DocumentValidator.results
  raised,       \* the exception that escaped main(), "none" when there is none
  exit_status,  \* the process exit status, -1 while running
  content,      \* the document handed to one checker (function-level specifications)
  examined,     \* the section_content values the loop of _check_sections walked
  issues,       \* the issue list that checker filled
  outcome,      \* "input" before the checker ran, "returned" or the exception it raised
  report,       \* the report print_summary generated, <<>> before
  new_content,  \* the text remove_empty_headings returned last
  removed_count,\* the count remove_empty_headings returned last
  applied,      \* how many times remove_empty_headings was applied
  file,         \* the characters stored in the file process_file works on
  dry_run,      \* process_file's dry_run argument
  stats,        \* the dict process_file returned, <<>> before
  written       \* whether process_file opened the file for writing

vars == <<pc, docs_dir, fs, md_files, results, raised, exit_status,
          content, examined, issues, outcome, report,
          new_content, removed_count, applied, file, dry_run, stats, written>>

(***************************************************************************)
(* Python string primitives                                                *)
(***************************************************************************)

\* Characters Python's str.strip() and the pattern \s treat as whitespace.
Whitespace == {" ", "\n", "\t", "\r"}

Digits == {"0", "1", "2", "3", "4", "5", "6", "7", "8", "9"}

\* n copies of one character
Rep(ch, n) == [i \in 1..n |-> ch]

\* s[i:] and s[:i] on 1-based positions
From(s, i) == SubSeq(s, i, Len(s))

\* str.startswith
StartsWith(s, p) == Len(s) >= Len(p) /\ SubSeq(s, 1, Len(p)) = p

\* str.endswith
EndsWith(s, p) == Len(s) >= Len(p) /\ SubSeq(s, Len(s) - Len(p) + 1, Len(s)) = p

\* whether p occurs in s at position i
At(s, i, p) == i >= 1 /\ i + Len(p) - 1 <= Len(s) /\ SubSeq(s, i, i + Len(p) - 1) = p

\* The positions lo..hi of s that hold the character ch, ascending.
RECURSIVE CharPos(_, _, _, _)
CharPos(s, ch, lo, hi) ==
  IF lo > hi THEN <<>>
  ELSE IF lo = hi THEN (IF s[lo] = ch THEN <<lo>> ELSE <<>>)
  ELSE LET mid == (lo + hi) \div 2
       IN CharPos(s, ch, lo, mid) \o CharPos(s, ch, mid + 1, hi)

\* The positions of s at or after start where p occurs, ascending (p is not empty).
Occurrences(s, p, start) ==
  SelectSeq(CharPos(s, p[1], start, Len(s)), LAMBDA i : At(s, i, p))

\* str.find(p, start) on 1-based positions: the first occurrence, 0 when there is none
Find(s, p, start) ==
  LET occ == Occurrences(s, p, start)
  IN IF occ = <<>> THEN 0 ELSE occ[1]

\* str.count of a single character
CountChar(s, ch) == Len(CharPos(s, ch, 1, Len(s)))

\* The first position in lo..hi whose character is not whitespace, 0 when none.
RECURSIVE FirstNonSpace(_, _, _)
FirstNonSpace(s, lo, hi) ==
  IF lo > hi THEN 0
  ELSE IF lo = hi THEN (IF s[lo] \in Whitespace THEN 0 ELSE lo)
  ELSE LET mid == (lo + hi) \div 2
           left == FirstNonSpace(s, lo, mid)
       IN IF left # 0 THEN left ELSE FirstNonSpace(s, mid + 1, hi)

\* The last position in lo..hi whose character is not whitespace, 0 when none.
RECURSIVE LastNonSpace(_, _, _)
LastNonSpace(s, lo, hi) ==
  IF lo > hi THEN 0
  ELSE IF lo = hi THEN (IF s[lo] \in Whitespace THEN 0 ELSE lo)
  ELSE LET mid == (lo + hi) \div 2
           right == LastNonSpace(s, mid + 1, hi)
       IN IF right # 0 THEN right ELSE LastNonSpace(s, lo, mid)

\* str.strip()
Strip(s) ==
  LET a == FirstNonSpace(s, 1, Len(s))
  IN IF a = 0 THEN <<>> ELSE SubSeq(s, a, LastNonSpace(s, 1, Len(s)))

\* The pieces of s between the given cut positions, each cut w characters wide.
Pieces(s, cuts, w) ==
  [k \in 1..(Len(cuts) + 1) |->
     SubSeq(s, IF k = 1 THEN 1 ELSE cuts[k - 1] + w,
               IF k = Len(cuts) + 1 THEN Len(s) ELSE cuts[k] - 1)]

\* str.split('\n')
Split(s) == Pieces(s, CharPos(s, "\n", 1, Len(s)), 1)

\* str.splitlines(): as split('\n'), without the empty piece after a final newline
\* (and no line at all for the empty string)
SplitLines(s) ==
  LET parts == Split(s)
  IN IF parts[Len(parts)] = <<>> THEN SubSeq(parts, 1, Len(parts) - 1) ELSE parts

\* '\n'.join(lines)
RECURSIVE Join(_)
Join(lines) ==
  IF lines = <<>> THEN <<>>
  ELSE IF Len(lines) = 1 THEN lines[1]
  ELSE LET mid == Len(lines) \div 2
       IN Join(SubSeq(lines, 1, mid)) \o <<"\n">> \o Join(SubSeq(lines, mid + 1, Len(lines)))

(***************************************************************************)
(* Constants of validate.py.  A Python str is its sequence of characters.  *)
(***************************************************************************)

MAX_SECTION_LENGTH == 1500
STUB_LINE_COUNT == 80
OVERSIZED_LINE_COUNT == 600
CODE_BLOCK_LONG_THRESHOLD == 10

K_title == <<"t", "i", "t", "l", "e">>
K_category == <<"c", "a", "t", "e", "g", "o", "r", "y">>
K_subcategory == <<"s", "u", "b", "c", "a", "t", "e", "g", "o", "r", "y">>
K_tags == <<"t", "a", "g", "s">>
K_stack == <<"s", "t", "a", "c", "k">>
K_priority == <<"p", "r", "i", "o", "r", "i", "t", "y">>
K_audience == <<"a", "u", "d", "i", "e", "n", "c", "e">>
K_complexity == <<"c", "o", "m", "p", "l", "e", "x", "i", "t", "y">>
K_doc_type == <<"d", "o", "c", "_", "t", "y", "p", "e">>
K_source_confidence ==
  <<"s", "o", "u", "r", "c", "e", "_", "c", "o", "n", "f", "i", "d", "e", "n", "c", "e">>
K_last_updated == <<"l", "a", "s", "t", "_", "u", "p", "d", "a", "t", "e", "d">>

VALID_STACKS ==
  { <<"j", "s", "-", "n", "e", "x", "t", "j", "s">>,
    <<"s", "a", "n", "i", "t", "y">>,
    <<"p", "h", "p", "-", "w", "p">>,
    <<"c", "r", "o", "s", "s", "-", "s", "t", "a", "c", "k">> }
VALID_PRIORITIES ==
  { <<"h", "i", "g", "h">>,
    <<"m", "e", "d", "i", "u", "m">>,
    <<"l", "o", "w">> }
VALID_AUDIENCES ==
  { <<"f", "r", "o", "n", "t", "e", "n", "d">>,
    <<"b", "a", "c", "k", "e", "n", "d">>,
    <<"f", "u", "l", "l", "s", "t", "a", "c", "k">> }
VALID_COMPLEXITIES ==
  { <<"b", "e", "g", "i", "n", "n", "e", "r">>,
    <<"i", "n", "t", "e", "r", "m", "e", "d", "i", "a", "t", "e">>,
    <<"a", "d", "v", "a", "n", "c", "e", "d">> }

\* the words of PRONOUN_PATTERN, ^(It|This|These|They|That|We)\s
PRONOUNS ==
  { <<"I", "t">>,
    <<"T", "h", "i", "s">>,
    <<"T", "h", "e", "s", "e">>,
    <<"T", "h", "e", "y">>,
    <<"T", "h", "a", "t">>,
    <<"W", "e">> }

REQUIRED_FRONTMATTER ==
  <<K_title, K_category, K_subcategory, K_tags, K_stack, K_priority,
    K_audience, K_complexity, K_doc_type, K_source_confidence, K_last_updated>>

(***************************************************************************)
(* ValidationIssue and the Python values a frontmatter field can hold      *)
(***************************************************************************)

\* A ValidationIssue.  line_number 0 is None; texts and nums are the values the
\* code formats into message and details, in the order it formats them.
Issue(level, check, line_number, texts, nums) ==
  [level |-> level, check |-> check, line_number |-> line_number,
   texts |-> texts, nums |-> nums]

PyNone == [t |-> "none"]
PyStr(s) == [t |-> "str", v |-> s]
PyInt(n) == [t |-> "int", v |-> n]
PyDate(s) == [t |-> "date", v |-> s]
PyList(xs) == [t |-> "list", v |-> xs]
PyDict(f) == [t |-> "dict", v |-> f]

DigitValue(ch) == CHOOSE n \in 0..9 : <<"0", "1", "2", "3", "4", "5", "6", "7", "8", "9">>[n + 1] = ch

IsDigits(s) == s # <<>> /\ \A i \in 1..Len(s) : s[i] \in Digits

\* int() of a digit string
RECURSIVE ToInt(_)
ToInt(s) ==
  IF s = <<>> THEN 0 ELSE 10 * ToInt(SubSeq(s, 1, Len(s) - 1)) + DigitValue(s[Len(s)])

\* str() of a non-negative int
RECURSIVE IntToStr(_)
IntToStr(n) ==
  IF n < 10 THEN <<<<"0", "1", "2", "3", "4", "5", "6", "7", "8", "9">>[n + 1]>>
  ELSE IntToStr(n \div 10) \o IntToStr(n % 10)

\* sep.join(parts)
RECURSIVE JoinWith(_, _)
JoinWith(parts, sep) ==
  IF parts = <<>> THEN <<>>
  ELSE IF Len(parts) = 1 THEN parts[1]
  ELSE parts[1] \o sep \o JoinWith(Tail(parts), sep)

\* repr() of a value inside a list: a str is quoted
RECURSIVE ToStr(_)
PyRepr(x) == IF x.t = "str" THEN <<"'">> \o x.v \o <<"'">> ELSE ToStr(x)

\* str() of a value, as the f-strings and str() calls of _check_frontmatter see it
ToStr(x) ==
  CASE x.t = "str" -> x.v
    [] x.t = "none" -> <<"N", "o", "n", "e">>
    [] x.t = "int" -> IntToStr(x.v)
    [] x.t = "date" -> x.v
    [] x.t = "list" ->
         <<"[">> \o JoinWith([i \in 1..Len(x.v) |-> PyRepr(x.v[i])], <<",", " ">>) \o <<"]">>
    [] x.t = "dict" -> <<"{", "}">>

\* Whether s has the shape YYYY-MM-DD.
DateShape(s) ==
  /\ Len(s) = 10
  /\ s[5] = "-" /\ s[8] = "-"
  /\ \A i \in {1, 2, 3, 4, 6, 7, 9, 10} : s[i] \in Digits

DaysInMonth(y, m) ==
  IF m \in {4, 6, 9, 11} THEN 30
  ELSE IF m # 2 THEN 31
  ELSE IF y % 4 = 0 /\ (y % 100 # 0 \/ y % 400 = 0) THEN 29 ELSE 28

\* Whether datetime.fromisoformat(s) returns (TRUE) or raises ValueError (FALSE),
\* for the texts the modelled documents hold: a calendar date YYYY-MM-DD parses,
\* any text of another shape does not.
FromIsoFormat(s) ==
  /\ DateShape(s)
  /\ LET y == ToInt(SubSeq(s, 1, 4))
         m == ToInt(SubSeq(s, 6, 7))
         d == ToInt(SubSeq(s, 9, 10))
     IN y >= 1 /\ m \in 1..12 /\ d >= 1 /\ d <= DaysInMonth(y, m)

\* re.match(r'^\d+%$', s): digits, a percent sign, and the end of the string or
\* the newline that ends it
MatchesConfidence(s) ==
  LET body == IF EndsWith(s, <<"\n">>) THEN SubSeq(s, 1, Len(s) - 1) ELSE s
  IN /\ Len(body) >= 2
     /\ body[Len(body)] = "%"
     /\ IsDigits(SubSeq(body, 1, Len(body) - 1))

(***************************************************************************)
(* yaml.safe_load, for the YAML the modelled documents hold: a block       *)
(* mapping of "key: value" lines, a block sequence of "- item" lines or    *)
(* one plain scalar; a value is a plain scalar, a flow sequence [a, b] or  *)
(* the empty flow mapping {}.  The result is [ok |-> TRUE, value |-> v],   *)
(* or [ok |-> FALSE] when the library raises yaml.YAMLError.               *)
(***************************************************************************)

\* A plain scalar, resolved as YAML 1.1 resolves it.
YamlScalar(txt) ==
  IF txt = <<>> \/ txt = <<"~">> \/ txt = <<"n", "u", "l", "l">> THEN PyNone
  ELSE IF IsDigits(txt) /\ (txt[1] # "0" \/ Len(txt) = 1) THEN PyInt(ToInt(txt))
  ELSE IF FromIsoFormat(txt) THEN PyDate(txt)
  ELSE PyStr(txt)

\* The value after "key: " or "- ".
YamlValue(txt) ==
  IF txt # <<>> /\ txt[1] = "["
  THEN IF txt[Len(txt)] # "]" THEN [ok |-> FALSE]
       ELSE LET inner == Strip(SubSeq(txt, 2, Len(txt) - 1))
                items == Pieces(inner, CharPos(inner, ",", 1, Len(inner)), 1)
            IN [ok |-> TRUE,
                value |-> PyList(IF inner = <<>> THEN <<>>
                                 ELSE [i \in 1..Len(items) |-> YamlScalar(Strip(items[i]))])]
  ELSE IF txt # <<>> /\ txt[1] = "{"
  THEN IF txt = <<"{", "}">> THEN [ok |-> TRUE, value |-> PyDict(<<>>)] ELSE [ok |-> FALSE]
  ELSE [ok |-> TRUE, value |-> YamlScalar(txt)]

\* The position of the ':' that ends a line's key, 0 when the line has none.
KeyEnd(line) ==
  LET p == Find(line, <<":", " ">>, 1)
  IN IF p # 0 THEN p ELSE IF EndsWith(line, <<":">>) THEN Len(line) ELSE 0

yaml_safe_load(text) ==
  LET lines == SelectSeq(Split(text), LAMBDA l : Strip(l) # <<>>)
      n == Len(lines)
      IsItem(l) == StartsWith(l, <<"-", " ">>)
      IsPair(l) == ~IsItem(l) /\ KeyEnd(l) > 1
      key(l) == SubSeq(l, 1, KeyEnd(l) - 1)
      val(l) == YamlValue(Strip(From(l, KeyEnd(l) + 1)))
      item(l) == YamlValue(Strip(From(l, 3)))
  IN IF n = 0 THEN [ok |-> TRUE, value |-> PyNone]
     ELSE IF \A i \in 1..n : IsPair(lines[i])
     THEN IF \E i \in 1..n : ~val(lines[i]).ok THEN [ok |-> FALSE]
          ELSE [ok |-> TRUE,
                value |-> PyDict([k \in {key(lines[i]) : i \in 1..n} |->
                            LET last == CHOOSE i \in 1..n :
                                          /\ key(lines[i]) = k
                                          /\ \A j \in (i + 1)..n : key(lines[j]) # k
                            IN val(lines[last]).value])]
     ELSE IF \A i \in 1..n : IsItem(lines[i])
     THEN IF \E i \in 1..n : ~item(lines[i]).ok THEN [ok |-> FALSE]
          ELSE [ok |-> TRUE, value |-> PyList([i \in 1..n |-> item(lines[i]).value])]
     ELSE IF \A i \in 1..n : ~IsItem(lines[i]) /\ ~IsPair(lines[i])
     THEN IF n = 1 THEN YamlValue(Strip(lines[1]))
          ELSE [ok |-> TRUE, value |-> PyStr(JoinWith(lines, <<" ">>))]
     ELSE [ok |-> FALSE]

(***************************************************************************)
(* DocumentValidator._check_frontmatter                                    *)
(***************************************************************************)

DELIM == <<"-", "-", "-">>

\* A value Python cannot hash: 'value not in VALID_...' raises TypeError on it.
Unhashable(x) == x.t \in {"list", "dict"}

\* 'value in allowed', for a hashable value and a set of str
InSet(x, allowed) == x.t = "str" /\ x.v \in allowed

\* The four enum checks, in the order the code makes them.
ENUM_CHECKS ==
  << [key |-> K_stack, allowed |-> VALID_STACKS, check |-> "frontmatter_stack"],
     [key |-> K_priority, allowed |-> VALID_PRIORITIES, check |-> "frontmatter_priority"],
     [key |-> K_audience, allowed |-> VALID_AUDIENCES, check |-> "frontmatter_audience"],
     [key |-> K_complexity, allowed |-> VALID_COMPLEXITIES, check |-> "frontmatter_complexity"] >>

\* The issue of one enum check on the mapping fm (none when the field is absent
\* or its value allowed).
EnumIssue(fm, e) ==
  IF e.key \in DOMAIN fm /\ ~InSet(fm[e.key], e.allowed)
  THEN <<Issue("FAIL", e.check, 0, <<ToStr(fm[e.key])>>, <<>>)>>
  ELSE <<>>

\* The enum checks 1..n in order.
RECURSIVE EnumIssues(_, _)
EnumIssues(fm, n) ==
  IF n = 0 THEN <<>> ELSE EnumIssues(fm, n - 1) \o EnumIssue(fm, ENUM_CHECKS[n])

\* missing_fields and its issue
RequiredIssue(fm) ==
  LET missing_fields == SelectSeq(REQUIRED_FRONTMATTER, LAMBDA field : field \notin DOMAIN fm)
  IN IF missing_fields # <<>>
     THEN <<Issue("FAIL", "frontmatter_required_fields", 0, missing_fields, <<>>)>>
     ELSE <<>>

ConfidenceIssue(fm) ==
  IF K_source_confidence \in DOMAIN fm /\ ~MatchesConfidence(ToStr(fm[K_source_confidence]))
  THEN <<Issue("FAIL", "frontmatter_confidence", 0, <<ToStr(fm[K_source_confidence])>>, <<>>)>>
  ELSE <<>>

DateIssue(fm) ==
  IF K_last_updated \in DOMAIN fm /\ ~FromIsoFormat(ToStr(fm[K_last_updated]))
  THEN <<Issue("FAIL", "frontmatter_date", 0, <<ToStr(fm[K_last_updated])>>, <<>>)>>
  ELSE <<>>

TagsIssue(fm) ==
  IF K_tags \in DOMAIN fm /\ (fm[K_tags].t # "list" \/ Len(fm[K_tags].v) = 0)
  THEN <<Issue("FAIL", "frontmatter_tags", 0, <<>>, <<>>)>>
  ELSE <<>>

\* The schema checks on a mapping (lines 197-271).  The first enum field whose
\* value cannot be hashed raises TypeError out of the checker.
SchemaChecks(fm) ==
  LET raising == {i \in 1..Len(ENUM_CHECKS) :
                    ENUM_CHECKS[i].key \in DOMAIN fm /\ Unhashable(fm[ENUM_CHECKS[i].key])}
      first == CHOOSE i \in raising : \A j \in raising : i <= j
  IN IF raising # {}
     THEN [issues |-> RequiredIssue(fm) \o EnumIssues(fm, first - 1), raised |-> "TypeError"]
     ELSE [issues |-> RequiredIssue(fm) \o EnumIssues(fm, Len(ENUM_CHECKS))
                        \o ConfidenceIssue(fm) \o DateIssue(fm) \o TagsIssue(fm),
           raised |-> "none"]

\* _check_frontmatter(content, lines, issues): the issues it appends, and the
\* exception it lets escape ("none" when it returns).
_check_frontmatter(text, lines) ==
  LET second_delim == Find(text, DELIM, 4)
      frontmatter_text == Strip(SubSeq(text, 4, second_delim - 1))
      loaded == yaml_safe_load(frontmatter_text)
      Fail(check, line) == [issues |-> <<Issue("FAIL", check, line, <<>>, <<>>)>>,
                            raised |-> "none"]
  IN IF ~StartsWith(text, DELIM) THEN Fail("frontmatter_start", 1)
     ELSE IF lines # <<>> /\ StartsWith(lines[1], <<"#", " ">>)
     THEN Fail("frontmatter_h1_before", 1)
     ELSE IF second_delim = 0 THEN Fail("frontmatter_end", 0)
     ELSE IF ~loaded.ok THEN Fail("frontmatter_parse", 0)
     ELSE IF loaded.value.t # "dict" THEN Fail("frontmatter_parse", 0)
     ELSE SchemaChecks(loaded.value.v)

(***************************************************************************)
(* DocumentValidator._check_sections and its helpers                       *)
(***************************************************************************)

H2 == <<"#", "#", " ">>
\* The backtick character (written out: SANY cannot read it inside a string).
BACKTICK == "BACKTICK"
FENCE == <<BACKTICK, BACKTICK, BACKTICK>>

\* first_sentence[:100], the part of the sentence section_pronoun quotes
SENTENCE_QUOTE == 100
\* before_code[-200:], the text searched for a ### heading
RECENT_TEXT == 200

\* s[:n]
Prefix(s, n) == IF Len(s) > n THEN SubSeq(s, 1, n) ELSE s

\* s[-n:] if len(s) > n else s
Suffix(s, n) == IF Len(s) > n THEN SubSeq(s, Len(s) - n + 1, Len(s)) ELSE s

\* re.split(r'\n## ', text): the matches cannot overlap, so every occurrence cuts
ReSplitH2(text) == Pieces(text, Occurrences(text, <<"\n">> \o H2, 1), 4)

\* The section_content values the loop of _check_sections examines, in order:
\* '## ' + section for every piece but the first.
section_contents(text) ==
  LET sections == ReSplitH2(text)
  IN [i \in 1..(Len(sections) - 1) |-> H2 \o sections[i + 1]]

\* PRONOUN_PATTERN.match(s)
PronounMatch(s) ==
  \E w \in PRONOUNS : StartsWith(s, w) /\ Len(s) > Len(w) /\ s[Len(w) + 1] \in Whitespace

\* re.findall of a fence, anything (non-greedy), a fence, from position pos on: each block runs
\* from a fence to the next fence after it, and the search resumes behind it.
RECURSIVE FindCodeBlocks(_, _)
FindCodeBlocks(section, pos) ==
  LET open == Find(section, FENCE, pos)
      close == IF open = 0 THEN 0 ELSE Find(section, FENCE, open + 3)
  IN IF close = 0 THEN <<>>
     ELSE <<SubSeq(section, open, close + 2)>> \o FindCodeBlocks(section, close + 3)

\* The issue of one code block of _check_code_blocks_in_section.
CodeBlockIssue(section, section_title, code_block) ==
  LET lines_in_block == CountChar(code_block, "\n")
      code_block_pos == Find(section, code_block, 1)
      before_code == Strip(SubSeq(section, 1, code_block_pos - 1))
      recent_text == Suffix(before_code, RECENT_TEXT)
  IN IF lines_in_block > CODE_BLOCK_LONG_THRESHOLD
        /\ Find(recent_text, <<"\n", "#", "#", "#", " ">>, 1) = 0
     THEN <<Issue("WARN", "code_block_subsection", 0, <<section_title>>, <<lines_in_block>>)>>
     ELSE <<>>

RECURSIVE CodeBlockIssues(_, _, _)
CodeBlockIssues(section, section_title, code_blocks) ==
  IF code_blocks = <<>> THEN <<>>
  ELSE CodeBlockIssue(section, section_title, Head(code_blocks))
         \o CodeBlockIssues(section, section_title, Tail(code_blocks))

_check_code_blocks_in_section(section, section_title) ==
  CodeBlockIssues(section, section_title, FindCodeBlocks(section, 1))

\* The length check of one section (lines 293-301).
SectionLengthIssue(section_content, section_title) ==
  LET section_length == Len(section_content)
  IN IF section_length > MAX_SECTION_LENGTH
     THEN <<Issue("FAIL", "section_length", 0, <<section_title>>, <<section_length>>)>>
     ELSE <<>>

\* The pronoun check of one section (lines 303-314).
SectionPronounIssue(section_lines, section_title) ==
  LET section_text == Strip(Join(Tail(section_lines)))
      first_sentence == Strip(Split(section_text)[1])
  IN IF section_text # <<>> /\ PronounMatch(first_sentence)
     THEN <<Issue("FAIL", "section_pronoun", 0,
                  <<section_title, Prefix(first_sentence, SENTENCE_QUOTE)>>, <<>>)>>
     ELSE <<>>

\* One pass of the loop over the sections (lines 288-317).
SectionIssues(section_content) ==
  LET section_lines == Split(section_content)
      section_title == section_lines[1]
  IN SectionLengthIssue(section_content, section_title)
       \o SectionPronounIssue(section_lines, section_title)
       \o _check_code_blocks_in_section(section_content, section_title)

RECURSIVE AllSectionIssues(_)
AllSectionIssues(contents) ==
  IF contents = <<>> THEN <<>>
  ELSE SectionIssues(Head(contents)) \o AllSectionIssues(Tail(contents))

\* Whether the pattern (#{2,4}[^\n]+\n)\s* and a fence matches with its first character at
\* p: two hashes, at least one more character of the line, the line's newline,
\* any whitespace, a fence.  BareLineEnd is the newline, BareFence the fence.
BareLineEnd(text, p) == Find(text, <<"\n">>, p + 2)
BareFence(text, p) == FirstNonSpace(text, BareLineEnd(text, p) + 1, Len(text))
BareMatchAt(text, p) ==
  /\ At(text, p, <<"#", "#">>)
  /\ BareLineEnd(text, p) >= p + 3
  /\ BareFence(text, p) # 0
  /\ At(text, BareFence(text, p), FENCE)

\* re.finditer of that pattern from position pos on, and the issue of each match:
\* the leftmost match, then the search resumes behind its fence.
RECURSIVE BareCodeBlockIssues(_, _)
BareCodeBlockIssues(text, pos) ==
  LET starts == SelectSeq(Occurrences(text, <<"#", "#">>, pos),
                          LAMBDA p : BareMatchAt(text, p))
      p == starts[1]
      heading == Strip(SubSeq(text, p, BareLineEnd(text, p)))
  IN IF starts = <<>> THEN <<>>
     ELSE <<Issue("WARN", "bare_code_block", 0, <<heading>>, <<>>)>>
            \o BareCodeBlockIssues(text, BareFence(text, p) + 3)

_check_bare_code_blocks(text) == BareCodeBlockIssues(text, 1)

\* len(re.match(r'^#+', line).group())
RECURSIVE HeadingLevel(_)
HeadingLevel(line) ==
  IF line # <<>> /\ line[1] = "#" THEN 1 + HeadingLevel(Tail(line)) ELSE 0

\* The loop of _check_heading_hierarchy over the lines that start with '#' (the
\* other lines change nothing): nums are the line numbers still to visit.
RECURSIVE HierarchyIssues(_, _, _)
HierarchyIssues(lines, nums, prev_level) ==
  IF nums = <<>> THEN <<>>
  ELSE LET line == lines[Head(nums)]
           level == HeadingLevel(line)
       IN (IF level > prev_level + 1
           THEN <<Issue("WARN", "heading_hierarchy", Head(nums), <<Strip(line)>>,
                        <<prev_level, level>>)>>
           ELSE <<>>)
            \o HierarchyIssues(lines, Tail(nums), level)

_check_heading_hierarchy(text) ==
  LET lines == Split(text)
      headings == SelectSeq([i \in 1..Len(lines) |-> i],
                            LAMBDA i : StartsWith(lines[i], <<"#">>))
  IN HierarchyIssues(lines, headings, 1)

\* _check_sections(content, issues): the issues it appends.
_check_sections(text) ==
  IF Len(ReSplitH2(text)) < 2
  THEN <<Issue("WARN", "sections_exist", 0, <<>>, <<>>)>>
  ELSE AllSectionIssues(section_contents(text))
         \o _check_bare_code_blocks(text)
         \o _check_heading_hierarchy(text)

(***************************************************************************)
(* DocumentValidator._check_structural                                     *)
(***************************************************************************)

LOWER_ALNUM ==
  {"a", "b", "c", "d", "e", "f", "g", "h", "i", "j", "k", "l", "m", "n", "o", "p", "q", "r",
   "s", "t", "u", "v", "w", "x", "y", "z"} \cup Digits

\* re.match(r'^[a-z0-9]+(-[a-z0-9]+)*$', filename): runs of lower-case letters and
\* digits, joined by single hyphens
KebabCase(filename) ==
  /\ filename # <<>>
  /\ \A i \in 1..Len(filename) : filename[i] \in LOWER_ALNUM \cup {"-"}
  /\ filename[1] # "-" /\ filename[Len(filename)] # "-"
  /\ \A i \in 1..(Len(filename) - 1) : ~(filename[i] = "-" /\ filename[i + 1] = "-")

\* Path.stem of a file name: the name without its last suffix
Stem(name) ==
  LET dots == CharPos(name, ".", 1, Len(name))
      i == dots[Len(dots)]
  IN IF dots # <<>> /\ i > 1 /\ i < Len(name) THEN SubSeq(name, 1, i - 1) ELSE name

\* A variant of _check_structural that reports a stub file as a FAIL; the
\* severity property of the stylistic rules (C10) tells it from the code.
_check_structural_stub_fails(text, lines, name) ==
  LET line_count == Len(lines)
      filename == Stem(name)
  IN (IF line_count < STUB_LINE_COUNT
      THEN <<Issue("FAIL", "stub_file", 0, <<>>, <<line_count>>)>>
      ELSE IF line_count > OVERSIZED_LINE_COUNT
      THEN <<Issue("INFO", "oversized_file", 0, <<>>, <<line_count>>)>>
      ELSE <<>>)
     \o (IF ~KebabCase(filename)
         THEN <<Issue("FAIL", "filename_convention", 0, <<filename>>, <<>>)>>
         ELSE <<>>)
     \o (IF text # <<>> /\ ~EndsWith(text, <<"\n">>)
         THEN <<Issue("WARN", "trailing_newline", 0, <<>>, <<>>)>>
         ELSE <<>>)

\* _check_structural(content, lines, file_path, issues): the issues it appends;
\* name is file_path.name.
_check_structural(text, lines, name) ==
  LET line_count == Len(lines)
      filename == Stem(name)
  IN (IF line_count < STUB_LINE_COUNT
      THEN <<Issue("WARN", "stub_file", 0, <<>>, <<line_count>>)>>
      ELSE IF line_count > OVERSIZED_LINE_COUNT
      THEN <<Issue("INFO", "oversized_file", 0, <<>>, <<line_count>>)>>
      ELSE <<>>)
     \o (IF ~KebabCase(filename)
         THEN <<Issue("FAIL", "filename_convention", 0, <<filename>>, <<>>)>>
         ELSE <<>>)
     \o (IF text # <<>> /\ ~EndsWith(text, <<"\n">>)
         THEN <<Issue("WARN", "trailing_newline", 0, <<>>, <<>>)>>
         ELSE <<>>)

(***************************************************************************)
(* Files and paths.  A path is the sequence of its parts below the docs    *)
(* root; a file is [readable |-> TRUE, text |-> its content], or           *)
(* [readable |-> FALSE] when open() or the UTF-8 decoding fails.           *)
(***************************************************************************)

Unreadable == [readable |-> FALSE]
File(text) == [readable |-> TRUE, text |-> text]

\* The characters of the modelled file names, in code point order.
CODE_ORDER ==
  <<"-", ".", "0", "1", "2", "3", "4", "5", "6", "7", "8", "9",
    "A", "B", "C", "D", "E", "F", "G", "H", "I", "J", "K", "L", "M",
    "N", "O", "P", "Q", "R", "S", "T", "U", "V", "W", "X", "Y", "Z", "_",
    "a", "b", "c", "d", "e", "f", "g", "h", "i", "j", "k", "l", "m",
    "n", "o", "p", "q", "r", "s", "t", "u", "v", "w", "x", "y", "z">>

Ord(ch) == CHOOSE i \in 1..Len(CODE_ORDER) : CODE_ORDER[i] = ch

\* a < b for two str
StrLess(a, b) ==
  \E i \in 1..(Len(b)) :
    /\ \A j \in 1..(i - 1) : j <= Len(a) /\ a[j] = b[j]
    /\ (i > Len(a) \/ Ord(a[i]) < Ord(b[i]))

\* p < q for two paths: their parts compared in order, each as a str
PathLess(p, q) ==
  \E i \in 1..(Len(q)) :
    /\ \A j \in 1..(i - 1) : j <= Len(p) /\ p[j] = q[j]
    /\ (i > Len(p) \/ StrLess(p[i], q[i]))

\* sorted(paths)
RECURSIVE Sorted(_)
Sorted(paths) ==
  IF paths = {} THEN <<>>
  ELSE LET least == CHOOSE p \in paths : \A q \in paths \ {p} : PathLess(p, q)
       IN <<least>> \o Sorted(paths \ {least})

\* docs_root.glob('**/*.md'): the files, at any depth, whose name ends in .md
Glob(files) == {p \in DOMAIN files : EndsWith(p[Len(p)], <<".", "m", "d">>)}

\* str(path): the parts joined by '/'
PathStr(p) == JoinWith(p, <<"/">>)

\* The parts of the docs root.
DOCS_ROOT == << <<"d", "o", "c", "s">> >>

(***************************************************************************)
(* DocumentValidator.validate_file and FileValidationResult                *)
(***************************************************************************)

FileValidationResult(file_path, relative_path, line_count, issue_list) ==
  [file_path |-> file_path, relative_path |-> relative_path,
   line_count |-> line_count, issues |-> issue_list]

\* A variant of has_failures that also counts a WARN; the exit status property
\* (C9) tells it from the code.
has_failures_or_warnings(r) ==
  \E i \in 1..Len(r.issues) : r.issues[i].level \in {"FAIL", "WARN"}

has_failures(r) == \E i \in 1..Len(r.issues) : r.issues[i].level = "FAIL"

has_warnings(r) == \E i \in 1..Len(r.issues) : r.issues[i].level = "WARN"

\* A variant of validate_file that runs the structural checker on a file it
\* could not read; the unreadable-file property (C7) tells it from the code.
validate_file_checking_unreadable(p, f) ==
  LET file_path == PathStr(DOCS_ROOT \o p)
      relative_path == PathStr(p)
      lines == SplitLines(f.text)
      frontmatter == _check_frontmatter(f.text, lines)
  IN IF ~f.readable
     THEN [raised |-> "none",
           result |-> FileValidationResult(file_path, relative_path, 0,
                        <<Issue("FAIL", "file_read", 0, <<>>, <<>>)>>
                          \o _check_structural(<<>>, <<>>, p[Len(p)]))]
     ELSE IF frontmatter.raised # "none"
     THEN [raised |-> frontmatter.raised]
     ELSE [raised |-> "none",
           result |-> FileValidationResult(file_path, relative_path, Len(lines),
                        frontmatter.issues
                          \o _check_sections(f.text)
                          \o _check_structural(f.text, lines, p[Len(p)]))]

\* validate_file(file_path) on the file f at path p below the root: the result
\* it returns, or the exception that escapes it.
validate_file(p, f) ==
  LET file_path == PathStr(DOCS_ROOT \o p)
      relative_path == PathStr(p)
      lines == SplitLines(f.text)
      frontmatter == _check_frontmatter(f.text, lines)
  IN IF ~f.readable
     THEN [raised |-> "none",
           result |-> FileValidationResult(file_path, relative_path, 0,
                        <<Issue("FAIL", "file_read", 0, <<>>, <<>>)>>)]
     ELSE IF frontmatter.raised # "none"
     THEN [raised |-> frontmatter.raised]
     ELSE [raised |-> "none",
           result |-> FileValidationResult(file_path, relative_path, Len(lines),
                        frontmatter.issues
                          \o _check_sections(f.text)
                          \o _check_structural(f.text, lines, p[Len(p)]))]

(***************************************************************************)
(* DocumentValidator.generate_report                                       *)
(***************************************************************************)

\* A variant of BaseName that keeps the directories; the duplicate basename
\* property (C15) tells it from the code.
BaseName_with_parents(file_path) == file_path

\* Path(file_path).name: what follows the last '/'
BaseName(file_path) ==
  LET slashes == CharPos(file_path, "/", 1, Len(file_path))
  IN IF slashes = <<>> THEN file_path
     ELSE SubSeq(file_path, slashes[Len(slashes)] + 1, Len(file_path))

\* generate_report() on the results rs: the summary, the histograms of the FAIL
\* and WARN issues by check id, and duplicate_basenames (basename -> the
\* relative paths of the results with that basename, in the order of the results).
generate_report(rs) ==
  LET total_files == Len(rs)
      files_with_failures == Cardinality({i \in 1..Len(rs) : has_failures(rs[i])})
      files_with_warnings == Cardinality({i \in 1..Len(rs) : has_warnings(rs[i])})
      at(level) == UNION { {<<i, k>> : k \in {k \in 1..Len(rs[i].issues) :
                                                 rs[i].issues[k].level = level}} :
                           i \in 1..Len(rs) }
      by_check(level) ==
        [c \in {rs[x[1]].issues[x[2]].check : x \in at(level)} |->
           Cardinality({x \in at(level) : rs[x[1]].issues[x[2]].check = c})]
      basename_map ==
        [b \in {BaseName(rs[i].file_path) : i \in 1..Len(rs)} |->
           LET same == SelectSeq([i \in 1..Len(rs) |-> i],
                                 LAMBDA i : BaseName(rs[i].file_path) = b)
           IN [n \in 1..Len(same) |-> rs[same[n]].relative_path]]
      duplicates == [b \in {b \in DOMAIN basename_map : Len(basename_map[b]) > 1} |->
                       basename_map[b]]
  IN [summary |->
        [total_files |-> total_files,
         files_with_failures |-> files_with_failures,
         files_with_warnings |-> files_with_warnings,
         files_passing |-> total_files - files_with_failures - files_with_warnings,
         total_failures |-> Cardinality(at("FAIL")),
         total_warnings |-> Cardinality(at("WARN")),
         duplicate_basenames |-> Cardinality(DOMAIN duplicates)],
      failures_by_check |-> by_check("FAIL"),
      warnings_by_check |-> by_check("WARN"),
      duplicate_basenames |-> duplicates]

(***************************************************************************)
(* The documents the specifications draw from                              *)
(***************************************************************************)

\* For each required field, in the order of REQUIRED_FRONTMATTER, the values a
\* modelled frontmatter can give it: the first is valid, the others are not.
FIELD_VALUES ==
  << << <<"T">> >>,
     << <<"c">> >>,
     << <<"s">> >>,
     << <<"[", "a", "]">>, <<"[", "]">>, <<"a">> >>,
     << <<"s", "a", "n", "i", "t", "y">>, <<"i", "n", "v", "a", "l", "i", "d", "-", "v", "a", "l", "u", "e">>, <<"[", "s", "a", "n", "i", "t", "y", "]">> >>,
     << <<"h", "i", "g", "h">>, <<"u", "r", "g", "e", "n", "t">>, <<"{", "}">> >>,
     << <<"b", "a", "c", "k", "e", "n", "d">>, <<"a", "l", "l">> >>,
     << <<"b", "e", "g", "i", "n", "n", "e", "r">>, <<"~">> >>,
     << <<"g", "u", "i", "d", "e">> >>,
     << <<"9", "5", "%">>, <<"9", "5">>, <<"h", "i", "g", "h">> >>,
     << <<"2", "0", "2", "4", "-", "0", "1", "-", "1", "5">>, <<"t", "o", "d", "a", "y">>, <<"[", "a", "]">> >> >>

BODY_OK == <<"#", " ", "T", "\n", "\n", "#", "#", " ", "A", "\n", "T", "h", "e", " ", "x", "\n">>
T_H1 == <<"#", " ", "T">>
T_H2 == <<"#", "#", " ", "A">>
T_H3 == <<"#", "#", "#", " ", "B">>
T_H4 == <<"#", "#", "#", "#", " ", "C">>
T_H5 == <<"#", "#", "#", "#", "#", " ", "E">>
T_PRONOUN == <<"T", "h", "i", "s", " ", "x">>
T_PROSE == <<"T", "h", "e", " ", "x">>
T_LIST == <<"-", " ", "a", "\n", "-", " ", "b">>
T_SCALAR == <<"j", "u", "s", "t", " ", "t", "e", "x", "t">>
T_BROKEN == <<"t", "i", "t", "l", "e", ":", " ", "[", "a">>
N_A == <<"a", ".", "m", "d">>
N_BAD == <<"R", "e", "a", "d", "_", "M", "e", ".", "m", "d">>
N_KEBAB == <<"a", "-", "b", ".", "m", "d">>
N_TXT == <<"n", "o", "t", "e", "s", ".", "t", "x", "t">>
N_DIR == <<"g", "u", "i", "d", "e", "s">>

\* At most this many fields of a modelled frontmatter are absent or invalid.
MaxDeviations == 2
\* At most this many chunks make up a short document.
MaxChunks == 3
\* A long section is within this many characters of MAX_SECTION_LENGTH.
Slack == 1
\* At most this many files lie under the docs root.
MaxFiles == 2

FIELDS == 1..Len(REQUIRED_FRONTMATTER)

\* What a frontmatter holds for each field: 0 when the field is absent, else the
\* index of its value in FIELD_VALUES.
FrontmatterChoices ==
  UNION { { [k \in FIELDS |-> IF k \in D THEN alt[k] ELSE 1] :
              alt \in {a \in [D -> 0..3] :
                         \A k \in D : a[k] # 1 /\ a[k] <= Len(FIELD_VALUES[k])} } :
          D \in {D \in SUBSET FIELDS : Cardinality(D) <= MaxDeviations} }

\* The YAML text of a choice: one "key: value" line per field present.
FrontmatterText(choice) ==
  LET present == SelectSeq([k \in FIELDS |-> k], LAMBDA k : choice[k] # 0)
  IN Join([i \in 1..Len(present) |->
             REQUIRED_FRONTMATTER[present[i]] \o <<":", " ">>
               \o FIELD_VALUES[present[i]][choice[present[i]]]])

VALID_FRONTMATTER == FrontmatterText([k \in FIELDS |-> 1])

\* A document: the frontmatter between its delimiter lines, then the body.
Document(front, body) == DELIM \o <<"\n">> \o front \o <<"\n">> \o DELIM \o <<"\n">> \o body

\* Documents whose frontmatter is missing, misplaced, unclosed or no mapping.
MalformedDocs ==
  { <<>>,
    DELIM,
    BODY_OK,
    T_PROSE \o <<"\n">> \o BODY_OK,
    T_H1 \o <<"\n">> \o Document(VALID_FRONTMATTER, BODY_OK),
    DELIM \o <<"\n">> \o VALID_FRONTMATTER \o <<"\n">> \o BODY_OK,
    Document(<<>>, BODY_OK),
    Document(T_LIST, BODY_OK),
    Document(T_SCALAR, BODY_OK),
    Document(T_BROKEN, BODY_OK) }

FrontmatterDocs ==
  {Document(FrontmatterText(c), BODY_OK) : c \in FrontmatterChoices} \cup MalformedDocs

\* A fenced code block of one line, and one of more than CODE_BLOCK_LONG_THRESHOLD.
CODE_SHORT == FENCE \o <<"\n", "x", "\n">> \o FENCE
CODE_LONG == FENCE \o Rep("\n", CODE_BLOCK_LONG_THRESHOLD + 1) \o FENCE

CHUNKS ==
  {T_H1, T_H2, T_H3, T_H4, T_H5, <<>>, T_PRONOUN, T_PROSE, CODE_SHORT, CODE_LONG}

\* Short documents: up to MaxChunks chunks, one per line, with or without a
\* final newline.
ShortDocs ==
  { Join(chunks) \o tail :
      chunks \in UNION {[1..n -> CHUNKS] : n \in 0..MaxChunks},
      tail \in {<<>>, <<"\n">>} }

\* A section of exactly n characters: its heading line and one line of text.
LongSection(n) == T_H2 \o <<"\n">> \o Rep("x", n - Len(T_H2) - 1)

NEAR_LIMIT == (MAX_SECTION_LENGTH - Slack)..(MAX_SECTION_LENGTH + Slack)

\* Documents with a section near the length limit: something before it (or
\* nothing: the heading is the first line), and something behind it.
LongDocs ==
  { pre \o LongSection(n) \o post :
      pre \in {<<>>, T_H1 \o <<"\n">>, T_PROSE \o <<"\n">>},
      n \in NEAR_LIMIT,
      post \in {<<>>, <<"\n">>, <<"\n", "\n">> \o T_H2, <<"\n">> \o T_H2 \o <<"\n">> \o T_PROSE,
                <<"\n">> \o T_H3 \o <<"\n">> \o T_PROSE}
               \cup {<<"\n">> \o LongSection(m) : m \in NEAR_LIMIT} }

SectionDocs == ShortDocs \cup LongDocs

\* The documents of the corpus the validator scans.
D_OK == Document(VALID_FRONTMATTER, BODY_OK)
D_PRONOUN ==
  Document(VALID_FRONTMATTER, T_H1 \o <<"\n">> \o T_H2 \o <<"\n">> \o T_PRONOUN \o <<"\n">>)
D_NO_FRONTMATTER == BODY_OK
D_UNHASHABLE ==
  Document(FrontmatterText([k \in FIELDS |-> IF REQUIRED_FRONTMATTER[k] = K_stack THEN 3 ELSE 1]),
           BODY_OK)
D_STYLE ==
  Document(VALID_FRONTMATTER,
           T_H1 \o <<"\n">> \o T_H2 \o <<"\n">> \o T_H4 \o <<"\n">> \o CODE_LONG)
D_OVERSIZED == Document(VALID_FRONTMATTER, BODY_OK \o Rep("\n", OVERSIZED_LINE_COUNT))
D_NO_SECTIONS == Document(VALID_FRONTMATTER, T_H1 \o <<"\n">> \o T_PROSE \o <<"\n">>)

CorpusFiles ==
  {File(d) : d \in {D_OK, D_PRONOUN, D_NO_FRONTMATTER, D_UNHASHABLE, D_STYLE,
                    D_OVERSIZED, D_NO_SECTIONS}} \cup {Unreadable}

\* The paths below the docs root; the last one is no markdown file.
PATHS == {<<N_A>>, <<N_KEBAB>>, <<N_BAD>>, <<N_DIR, N_A>>, <<N_TXT>>}

\* The file trees: up to MaxFiles files.
FileSystems ==
  UNION { {f \in [P -> CorpusFiles] : <<N_TXT>> \in P => f[<<N_TXT>>] = File(D_OK)} :
          P \in {P \in SUBSET PATHS : Cardinality(P) <= MaxFiles} }

(***************************************************************************)
(* main() and DocumentValidator.validate_all                               *)
(***************************************************************************)

function_vars == <<content, examined, issues, outcome>>
main_vars == <<pc, docs_dir, fs, md_files, results, raised, exit_status, report>>
cleanup_vars == <<new_content, removed_count, applied, file, dry_run, stats, written>>

\* The clean-up script is not running.
CleanupIdle ==
  /\ new_content = <<>> /\ removed_count = 0 /\ applied = 0
  /\ file = <<>> /\ dry_run = FALSE /\ stats = <<>> /\ written = FALSE

Init ==
  /\ pc = "start"
  /\ docs_dir \in BOOLEAN
  /\ fs \in IF docs_dir THEN FileSystems ELSE {<<>>}
  /\ md_files = <<>>
  /\ results = <<>>
  /\ raised = "none"
  /\ exit_status = -1
  /\ report = <<>>
  /\ content = <<>> /\ examined = <<>> /\ issues = <<>> /\ outcome = "idle"
  /\ CleanupIdle

\* main, lines 552-554: the docs directory does not exist
MainNoDocsDir ==
  /\ pc = "start" /\ ~docs_dir
  /\ pc' = "exited" /\ exit_status' = 1
  /\ UNCHANGED <<docs_dir, fs, md_files, results, raised, report>>
  /\ UNCHANGED <<function_vars, cleanup_vars>>

\* validate_all, lines 93-98: the files are listed and sorted
ValidateAllStart ==
  /\ pc = "start" /\ docs_dir
  /\ md_files' = Sorted(Glob(fs))
  /\ pc' = "scan"
  /\ UNCHANGED <<docs_dir, fs, results, raised, exit_status, report>>
  /\ UNCHANGED <<function_vars, cleanup_vars>>

\* validate_all, lines 98-100: one pass of the loop, validate_file returns
ValidateAllStep ==
  /\ pc = "scan" /\ md_files # <<>>
  /\ \E file_path \in {Head(md_files)} :
       \E r \in {validate_file(file_path, fs[file_path])} :
         /\ r.raised = "none"
         /\ results' = Append(results, r.result)
  /\ md_files' = Tail(md_files)
  /\ UNCHANGED <<pc, docs_dir, fs, raised, exit_status, report>>
  /\ UNCHANGED <<function_vars, cleanup_vars>>

\* validate_all, lines 98-99: validate_file raises; nothing in validate_all or
\* main catches it, and the interpreter exits with status 1
ValidateAllRaise ==
  /\ pc = "scan" /\ md_files # <<>>
  /\ \E file_path \in {Head(md_files)} :
       \E r \in {validate_file(file_path, fs[file_path])} :
         /\ r.raised # "none"
         /\ raised' = r.raised
  /\ pc' = "exited" /\ exit_status' = 1
  /\ UNCHANGED <<docs_dir, fs, md_files, results, report>>
  /\ UNCHANGED <<function_vars, cleanup_vars>>

\* main, lines 560-563: validate_all returns, print_summary generates the report
MainSummary ==
  /\ pc = "scan" /\ md_files = <<>>
  /\ report' = generate_report(results)
  /\ pc' = "summary"
  /\ UNCHANGED <<docs_dir, fs, md_files, results, raised, exit_status>>
  /\ UNCHANGED <<function_vars, cleanup_vars>>

\* main, lines 573-575
MainExit ==
  /\ pc = "summary"
  /\ LET failures == \E i \in 1..Len(results) : has_failures(results[i])
     IN exit_status' = IF failures THEN 1 ELSE 0
  /\ pc' = "exited"
  /\ UNCHANGED <<docs_dir, fs, md_files, results, raised, report>>
  /\ UNCHANGED <<function_vars, cleanup_vars>>

Next ==
  \/ MainNoDocsDir
  \/ ValidateAllStart
  \/ ValidateAllStep
  \/ ValidateAllRaise
  \/ MainSummary
  \/ MainExit

Spec == Init /\ [][Next]_vars

(***************************************************************************)
(* Function-level specifications: one checker applied to one document      *)
(***************************************************************************)

Idle ==
  /\ pc = "idle" /\ docs_dir = FALSE /\ fs = <<>> /\ md_files = <<>>
  /\ results = <<>> /\ raised = "none" /\ exit_status = -1 /\ report = <<>>

InitFrontmatter ==
  /\ Idle
  /\ content \in FrontmatterDocs
  /\ examined = <<>> /\ issues = <<>> /\ outcome = "input"
  /\ CleanupIdle

\* _check_frontmatter(content, lines, issues), as validate_file calls it
CheckFrontmatter ==
  /\ outcome = "input"
  /\ LET r == _check_frontmatter(content, SplitLines(content))
     IN /\ issues' = r.issues
        /\ outcome' = IF r.raised = "none" THEN "returned" ELSE r.raised
  /\ UNCHANGED <<content, examined>>
  /\ UNCHANGED <<main_vars, cleanup_vars>>

NextFrontmatter == CheckFrontmatter

SpecFrontmatter == InitFrontmatter /\ [][NextFrontmatter]_vars

InitSections ==
  /\ Idle
  /\ content \in SectionDocs
  /\ examined = <<>> /\ issues = <<>> /\ outcome = "input"
  /\ CleanupIdle

\* _check_sections(content, issues); examined records the section_content
\* values its loop walked (none when it returned before the loop)
CheckSections ==
  /\ outcome = "input"
  /\ issues' = _check_sections(content)
  /\ examined' = section_contents(content)
  /\ outcome' = "returned"
  /\ UNCHANGED content
  /\ UNCHANGED <<main_vars, cleanup_vars>>

NextSections == CheckSections

SpecSections == InitSections /\ [][NextSections]_vars

(***************************************************************************)
(* remove_empty_headings.py: the heading clean-up script                   *)
(***************************************************************************)

\* A variant of the loop below that does not step over blank lines.
SkipBlank_not_skipping(lines, j) == j

\* The loop 'while j < len(lines) and lines[j].strip() == ""': the first line
\* number from j on whose line is not blank, Len(lines) + 1 when there is none.
RECURSIVE SkipBlank(_, _)
SkipBlank(lines, j) ==
  IF j <= Len(lines) /\ Strip(lines[j]) = <<>> THEN SkipBlank(lines, j + 1) ELSE j

\* find_empty_headings(content): the (1-based line number, line) pairs of the
\* '## ' lines whose next non-blank line is a '## ' line too.
find_empty_headings(text) ==
  LET lines == Split(text)
      empty == SelectSeq([i \in 1..Len(lines) |-> i],
                         LAMBDA i : /\ StartsWith(lines[i], H2)
                                    /\ SkipBlank(lines, i + 1) <= Len(lines)
                                    /\ StartsWith(lines[SkipBlank(lines, i + 1)], H2))
  IN [n \in 1..Len(empty) |-> [line_number |-> empty[n], text |-> lines[empty[n]]]]

\* A variant of remove_empty_headings that drops only the first empty heading.
remove_empty_headings_first_only(text) ==
  LET lines == Split(text)
      found == {i \in 1..Len(lines) : /\ StartsWith(lines[i], H2)
                                      /\ SkipBlank(lines, i + 1) <= Len(lines)
                                      /\ StartsWith(lines[SkipBlank(lines, i + 1)], H2)}
      lines_to_remove == {i \in found : \A k \in found : i <= k}
      kept == SelectSeq([i \in 1..Len(lines) |-> i], LAMBDA i : i \notin lines_to_remove)
  IN [new_content |-> Join([n \in 1..Len(kept) |-> lines[kept[n]]]),
      count_removed |-> Cardinality(lines_to_remove)]

\* remove_empty_headings(content): (new_content, count_removed).
remove_empty_headings(text) ==
  LET lines == Split(text)
      lines_to_remove ==
        {i \in 1..Len(lines) : /\ StartsWith(lines[i], H2)
                               /\ SkipBlank(lines, i + 1) <= Len(lines)
                               /\ StartsWith(lines[SkipBlank(lines, i + 1)], H2)}
      kept == SelectSeq([i \in 1..Len(lines) |-> i], LAMBDA i : i \notin lines_to_remove)
  IN [new_content |-> Join([n \in 1..Len(kept) |-> lines[kept[n]]]),
      count_removed |-> Cardinality(lines_to_remove)]

\* f.read() of a file opened in text mode: every '\r\n' and every other '\r'
\* of the stored characters is read as '\n' (universal newlines).
ReadText(stored) ==
  LET read == SelectSeq([i \in 1..Len(stored) |-> i],
                        LAMBDA i : ~(stored[i] = "\n" /\ i > 1 /\ stored[i - 1] = "\r"))
  IN [n \in 1..Len(read) |-> IF stored[read[n]] = "\r" THEN "\n" ELSE stored[read[n]]]

\* A variant of process_file that writes new_content in dry-run mode too.
process_file_writing_in_dry_run(stored, dry) ==
  LET original_content == ReadText(stored)
      empty_headings == find_empty_headings(original_content)
      removal == remove_empty_headings(original_content)
  IN IF empty_headings = <<>>
     THEN [stats |-> [empty_count |-> 0, removed |-> 0],
           file |-> stored, written |-> FALSE]
     ELSE [stats |-> [empty_count |-> Len(empty_headings),
                      removed |-> removal.count_removed,
                      empty_headings |-> [n \in 1..Len(empty_headings) |->
                                            empty_headings[n].text]],
           file |-> removal.new_content,
           written |-> TRUE]

\* process_file(filepath, dry_run) on a file that stores the given characters:
\* the dict it returns (without the path), the characters the file stores
\* afterwards, and whether it opened the file for writing.  f.write leaves
\* '\n' as it is (os.linesep on POSIX).
process_file(stored, dry) ==
  LET original_content == ReadText(stored)
      empty_headings == find_empty_headings(original_content)
      removal == remove_empty_headings(original_content)
  IN IF empty_headings = <<>>
     THEN [stats |-> [empty_count |-> 0, removed |-> 0],
           file |-> stored, written |-> FALSE]
     ELSE [stats |-> [empty_count |-> Len(empty_headings),
                      removed |-> removal.count_removed,
                      empty_headings |-> [n \in 1..Len(empty_headings) |->
                                            empty_headings[n].text]],
           file |-> IF dry THEN stored ELSE removal.new_content,
           written |-> ~dry]

\* At most this many lines make up a text handed to the clean-up script.
MaxLines == 4

\* The texts handed to the clean-up script: up to MaxLines lines, each a level-2
\* heading, an empty or whitespace-only line, a deeper heading, prose, or two
\* hashes without the space; the lines end in '\n', in '\r\n' or in '\r'.
HeadingTexts ==
  { JoinWith(lines, sep) :
      lines \in UNION { [1..n -> {T_H2, H2 \o <<"B">>, <<>>, <<" ">>, T_H3, <<"x">>,
                                  <<"#", "#", "A">>}] : n \in 1..MaxLines },
      sep \in {<<"\n">>, <<"\r", "\n">>, <<"\r">>} }

InitRemove ==
  /\ Idle
  /\ content \in HeadingTexts
  /\ examined = <<>> /\ issues = <<>> /\ outcome = "input"
  /\ CleanupIdle

\* remove_empty_headings(content), and then remove_empty_headings of what it
\* returned; applied counts the calls made.
RemoveEmptyHeadings ==
  /\ pc = "idle" /\ applied < 2
  /\ \E r \in {remove_empty_headings(IF applied = 0 THEN content ELSE new_content)} :
       /\ new_content' = r.new_content
       /\ removed_count' = r.count_removed
  /\ applied' = applied + 1
  /\ UNCHANGED <<file, dry_run, stats, written>>
  /\ UNCHANGED <<main_vars, function_vars>>

SpecRemove == InitRemove /\ [][RemoveEmptyHeadings]_vars

\* content keeps the characters the file stored before the call.
InitProcess ==
  /\ Idle
  /\ content \in HeadingTexts
  /\ examined = <<>> /\ issues = <<>> /\ outcome = "input"
  /\ new_content = <<>> /\ removed_count = 0 /\ applied = 0
  /\ file = content /\ dry_run \in BOOLEAN /\ stats = <<>> /\ written = FALSE

\* process_file(filepath, dry_run), lines 72-98
ProcessFile ==
  /\ pc = "idle" /\ applied = 0
  /\ \E r \in {process_file(file, dry_run)} :
       /\ stats' = r.stats
       /\ file' = r.file
       /\ written' = r.written
  /\ applied' = 1
  /\ UNCHANGED <<new_content, removed_count, dry_run>>
  /\ UNCHANGED <<main_vars, function_vars>>

SpecProcess == InitProcess /\ [][ProcessFile]_vars

(***************************************************************************)
(* Properties of the section engine, checked under SpecSections            *)
(***************************************************************************)

\* The number of issues of a list that carry the given check id.
CountCheck(issue_list, check) ==
  Cardinality({k \in 1..Len(issue_list) : issue_list[k].check = check})

\* The positions where a line of text begins with '## '.
Level2Lines(text) ==
  SelectSeq(Occurrences(text, H2, 1), LAMBDA p : p = 1 \/ text[p - 1] = "\n")

\* The sections of a document as the section splitter is specified: one per line
\* that begins with '## ', each running up to the next such line or the end.
Level2Sections(text) ==
  LET starts == Level2Lines(text)
  IN [i \in 1..Len(starts) |->
        SubSeq(text, starts[i], IF i < Len(starts) THEN starts[i + 1] - 1 ELSE Len(text))]

\* The concatenation of a sequence of texts.
RECURSIVE Concat(_)
Concat(texts) == IF texts = <<>> THEN <<>> ELSE Head(texts) \o Concat(Tail(texts))

\* C1: the sections the validator examines are, in document order, exactly one per
\* line that begins with '## ' (the first line included), each the exact run of
\* characters from its heading line up to the next such line or the end of the
\* input, so that their concatenation is the document from its first level-2
\* heading line on.
C1_SectionsAreHeadingRuns ==
  outcome = "returned" =>
    /\ examined = Level2Sections(content)
    /\ Level2Lines(content) # <<>> =>
         Concat(examined) = From(content, Level2Lines(content)[1])

\* C2: for every document with at least one section, the number of section_length
\* FAIL issues is the number of sections longer than 1500 characters, a section
\* being its heading line and all of its body as one contiguous string.
C2_LengthFailPerLongSection ==
  outcome = "returned" /\ Level2Sections(content) # <<>> =>
    /\ \A k \in 1..Len(issues) :
         issues[k].check = "section_length" => issues[k].level = "FAIL"
    /\ CountCheck(issues, "section_length")
         = Cardinality({i \in 1..Len(Level2Sections(content)) :
                          Len(Level2Sections(content)[i]) > 1500})

\* What holds of C2 in the code: over the section_content values the loop examines
\* ('## ' and a piece of the split at a newline followed by '## '), one
\* section_length FAIL per value longer than 1500 characters, none for 1500.
SectionLengthOverExamined ==
  outcome = "returned" /\ examined # <<>> =>
    /\ CountCheck(issues, "section_length")
         = Cardinality({i \in 1..Len(examined) : Len(examined[i]) > 1500})
    /\ \A i \in 1..Len(examined) :
         CountCheck(SectionIssues(examined[i]), "section_length")
           = IF Len(examined[i]) >= 1501 THEN 1 ELSE 0

\* A document with an examined section of exactly 1500 characters and one of 1501.
SectionLengthBoundaryReached ==
  /\ outcome = "returned"
  /\ \E i, j \in 1..Len(examined) : Len(examined[i]) = 1500 /\ Len(examined[j]) = 1501
  /\ CountCheck(issues, "section_length") = 1

\* The line numbers of the heading lines whose level exceeds the level of the
\* heading before them (1 before the first) by more than one.
SkippedLevelLines(text) ==
  LET lines == Split(text)
      h == SelectSeq([i \in 1..Len(lines) |-> i], LAMBDA i : StartsWith(lines[i], <<"#">>))
      level(k) == IF k = 0 THEN 1 ELSE HeadingLevel(lines[h[k]])
  IN {h[k] : k \in {k \in 1..Len(h) : level(k) > level(k - 1) + 1}}

\* C3: for every document, with or without a level-2 heading, the
\* heading_hierarchy WARN issues are exactly one per heading line whose level
\* exceeds the previous heading's level plus 1 (the previous level seeded at 1).
C3_HierarchyWarnPerSkippedLevel ==
  outcome = "returned" =>
    /\ {issues[k].line_number : k \in {k \in 1..Len(issues) :
                                        issues[k].check = "heading_hierarchy"}}
         = SkippedLevelLines(content)
    /\ CountCheck(issues, "heading_hierarchy") = Cardinality(SkippedLevelLines(content))
    /\ \A k \in 1..Len(issues) :
         issues[k].check = "heading_hierarchy" => issues[k].level = "WARN"

\* What holds of C3 in the code: the same, for the documents in which a newline
\* followed by '## ' occurs.
HierarchyWhenSplit ==
  outcome = "returned" /\ Len(ReSplitH2(content)) >= 2 => C3_HierarchyWarnPerSkippedLevel

(***************************************************************************)
(* Properties of the frontmatter checker, checked under SpecFrontmatter    *)
(***************************************************************************)

\* The issue list is a single FAIL with the given check id.
OnlyFail(issue_list, check) ==
  Len(issue_list) = 1 /\ issue_list[1].level = "FAIL" /\ issue_list[1].check = check

\* The first line of the text is a level-1 heading.
FirstLineIsH1(text) == StartsWith(text, <<"#", " ">>)

\* What the text between the first two delimiters loads to (text starts with a
\* delimiter and holds a second one).
LoadedFrontmatter(text) ==
  yaml_safe_load(Strip(SubSeq(text, 4, Find(text, DELIM, 4) - 1)))

\* The text starts with a delimiter and holds a second one.
Delimited(text) == StartsWith(text, DELIM) /\ Find(text, DELIM, 4) # 0

\* The frontmatter of the text parses to a mapping.
ParsesToMapping(text) ==
  Delimited(text) /\ LoadedFrontmatter(text).ok /\ LoadedFrontmatter(text).value.t = "dict"

\* C4: each malformed-frontmatter condition makes the frontmatter checker emit
\* exactly one FAIL with its own check id and nothing else: frontmatter_h1_before
\* when the first line is a level-1 heading, frontmatter_start when the content
\* does not begin with '---' otherwise, frontmatter_end when no second '---'
\* follows, frontmatter_parse when the enclosed text is invalid YAML or no mapping.
C4_DistinctFailPerMalformation ==
  outcome # "input" =>
    /\ FirstLineIsH1(content) => OnlyFail(issues, "frontmatter_h1_before")
    /\ ~StartsWith(content, DELIM) /\ ~FirstLineIsH1(content)
         => OnlyFail(issues, "frontmatter_start")
    /\ StartsWith(content, DELIM) /\ Find(content, DELIM, 4) = 0
         => OnlyFail(issues, "frontmatter_end")
    /\ Delimited(content) /\ ~ParsesToMapping(content)
         => OnlyFail(issues, "frontmatter_parse")

\* What holds of C4 in the code: a first line that is a level-1 heading gets
\* frontmatter_start, the other conditions their own FAIL, and no issue list
\* ever holds frontmatter_h1_before.
MalformationFailsInCode ==
  outcome # "input" =>
    /\ ~StartsWith(content, DELIM) => OnlyFail(issues, "frontmatter_start")
    /\ StartsWith(content, DELIM) /\ Find(content, DELIM, 4) = 0
         => OnlyFail(issues, "frontmatter_end")
    /\ Delimited(content) /\ ~ParsesToMapping(content)
         => OnlyFail(issues, "frontmatter_parse")
    /\ CountCheck(issues, "frontmatter_h1_before") = 0

\* The check ids of the schema checks.
SCHEMA_CHECKS ==
  {"frontmatter_required_fields", "frontmatter_stack", "frontmatter_priority",
   "frontmatter_audience", "frontmatter_complexity", "frontmatter_confidence",
   "frontmatter_date", "frontmatter_tags"}

\* Whether the mapping fm calls for the FAIL of the given schema check: a required
\* key absent, a present enumerated field outside its allowed set, a present
\* source_confidence that is not digits and '%', a present last_updated that is no
\* ISO date, a present tags that is not a non-empty list.
Outside(fm, key, allowed) ==
  key \in DOMAIN fm /\ ~(fm[key].t = "str" /\ fm[key].v \in allowed)

SchemaViolation(fm, check) ==
  CASE check = "frontmatter_required_fields" ->
         \E i \in 1..Len(REQUIRED_FRONTMATTER) : REQUIRED_FRONTMATTER[i] \notin DOMAIN fm
    [] check = "frontmatter_stack" -> Outside(fm, K_stack, VALID_STACKS)
    [] check = "frontmatter_priority" -> Outside(fm, K_priority, VALID_PRIORITIES)
    [] check = "frontmatter_audience" -> Outside(fm, K_audience, VALID_AUDIENCES)
    [] check = "frontmatter_complexity" -> Outside(fm, K_complexity, VALID_COMPLEXITIES)
    [] check = "frontmatter_confidence" ->
         K_source_confidence \in DOMAIN fm
           /\ ~MatchesConfidence(ToStr(fm[K_source_confidence]))
    [] check = "frontmatter_date" ->
         K_last_updated \in DOMAIN fm /\ ~FromIsoFormat(ToStr(fm[K_last_updated]))
    [] check = "frontmatter_tags" ->
         K_tags \in DOMAIN fm /\ ~(fm[K_tags].t = "list" /\ Len(fm[K_tags].v) > 0)

\* The issues are exactly the FAILs the mapping calls for, one per schema check
\* violated, the one for required fields naming every absent key.
AdditiveSchemaFails(fm, issue_list) ==
  /\ \A k \in 1..Len(issue_list) :
       issue_list[k].level = "FAIL" /\ issue_list[k].check \in SCHEMA_CHECKS
  /\ \A c \in SCHEMA_CHECKS :
       CountCheck(issue_list, c) = IF SchemaViolation(fm, c) THEN 1 ELSE 0
  /\ \A k \in 1..Len(issue_list) :
       issue_list[k].check = "frontmatter_required_fields" =>
         issue_list[k].texts
           = SelectSeq(REQUIRED_FRONTMATTER, LAMBDA field : field \notin DOMAIN fm)

\* C5: when the frontmatter parses to a mapping, the schema checks are
\* independent and additive: the checker returns, and the frontmatter FAILs are
\* exactly one per schema check the mapping violates.
C5_SchemaChecksAdditive ==
  outcome # "input" /\ ParsesToMapping(content) =>
    /\ outcome = "returned"
    /\ AdditiveSchemaFails(LoadedFrontmatter(content).value.v, issues)

\* What holds of C5 in the code: the same, whenever the checker returns.
SchemaChecksAdditiveOnReturn ==
  outcome = "returned" /\ ParsesToMapping(content) =>
    AdditiveSchemaFails(LoadedFrontmatter(content).value.v, issues)

\* The document of C5's example: tags missing and stack invalid gives exactly the
\* two FAILs frontmatter_required_fields and frontmatter_stack.
MissingTagsInvalidStack ==
  /\ outcome = "returned" /\ ParsesToMapping(content)
  /\ K_tags \notin DOMAIN LoadedFrontmatter(content).value.v
  /\ Len(issues) = 2
  /\ issues[1].check = "frontmatter_required_fields" /\ issues[1].texts = <<K_tags>>
  /\ issues[2].check = "frontmatter_stack"

(***************************************************************************)
(* Properties of the scan and of the exit status, checked under Spec       *)
(***************************************************************************)

\* The scan ran to its end: validate_all returned its results to main.
ScanComplete == pc \in {"summary", "exited"} /\ docs_dir /\ raised = "none"

\* The paths of the enumerated files with a result for that path.
Validated == {p \in Glob(fs) : \E i \in 1..Len(results) : results[i].relative_path = PathStr(p)}

\* The result of the file at path p.
ResultOf(p) == results[CHOOSE i \in 1..Len(results) : results[i].relative_path = PathStr(p)]

\* Some result holds an issue of the given check id.
Reported(check) ==
  \E i \in 1..Len(results) : \E k \in 1..Len(results[i].issues) :
    results[i].issues[k].check = check

\* C6: for every file and every file content, frontmatter values of any YAML
\* type included, validate_file returns a result, and no exception escapes to
\* the orchestrator.
C6_NoExceptionEscapes ==
  /\ raised = "none"
  /\ pc = "exited" /\ docs_dir => Validated = Glob(fs)

\* C7: an unreadable file's result holds exactly one issue, a FAIL with check id
\* file_read, and line count 0, so none of the checkers ran for it; the scan goes
\* on, and when it is complete the results hold exactly one result per
\* enumerated file, in sorted path order.
C7_UnreadableFileRecorded ==
  /\ \A p \in Validated :
       ~fs[p].readable =>
         /\ Len(ResultOf(p).issues) = 1
         /\ ResultOf(p).issues[1].level = "FAIL"
         /\ ResultOf(p).issues[1].check = "file_read"
         /\ ResultOf(p).line_count = 0
  /\ ScanComplete =>
       /\ Len(results) = Cardinality(Glob(fs))
       /\ Validated = Glob(fs)
       /\ \A i, j \in 1..Len(results) :
            i < j => \E p, q \in Glob(fs) :
                       /\ results[i].relative_path = PathStr(p)
                       /\ results[j].relative_path = PathStr(q)
                       /\ PathLess(p, q)

\* A complete scan of two files: the first, whose name is not kebab-case, could
\* not be read, and the scan went on to the second.
UnreadableThenNext ==
  /\ ScanComplete
  /\ Len(results) = 2
  /\ <<N_BAD>> \in Glob(fs) /\ ~fs[<<N_BAD>>].readable
  /\ results[1].relative_path = N_BAD
  /\ results[2].line_count > 0

\* The issue list of a readable file at path p when every checker runs, in the
\* order frontmatter, sections, structural.
AllCheckers(p) ==
  _check_frontmatter(fs[p].text, SplitLines(fs[p].text)).issues
    \o _check_sections(fs[p].text)
    \o _check_structural(fs[p].text, SplitLines(fs[p].text), p[Len(p)])

\* C8: for every readable file the frontmatter checker, the section engine and
\* the structural checker all run, in that order, whatever the frontmatter
\* outcome: its issue list is the frontmatter issues, then the section issues,
\* then the structural issues of its content.
C8_AllCheckersInOrder ==
  pc = "exited" /\ docs_dir =>
    \A p \in Glob(fs) :
      fs[p].readable => p \in Validated /\ ResultOf(p).issues = AllCheckers(p)

\* What holds of C8 in the code: the same for every file that has a result.
CheckersInOrderOnReturn ==
  \A p \in Validated : fs[p].readable => ResultOf(p).issues = AllCheckers(p)

\* Some result holds a FAIL.
SomeFail ==
  \E i \in 1..Len(results) : \E k \in 1..Len(results[i].issues) :
    results[i].issues[k].level = "FAIL"

\* C9: after a complete scan the exit status is 1 if and only if some file's
\* result holds a FAIL; a corpus with only WARN or INFO issues, or none, exits 0.
C9_ExitStatusIffFail ==
  pc = "exited" /\ docs_dir /\ raised = "none" =>
    /\ exit_status \in {0, 1}
    /\ exit_status = 1 <=> SomeFail

\* A complete scan that found a WARN and no FAIL, and exited with status 0.
WarnOnlyExitsZero ==
  /\ pc = "exited" /\ docs_dir /\ raised = "none"
  /\ exit_status = 0
  /\ \E i \in 1..Len(results) : has_warnings(results[i])

\* The check ids of the structural and stylistic rules, pronoun lead apart.
STYLE_CHECKS ==
  {"stub_file", "oversized_file", "code_block_subsection", "heading_hierarchy",
   "bare_code_block", "trailing_newline"}

\* Every issue of every result has its check id in the given set.
OnlyFindings(checks) ==
  \A i \in 1..Len(results) : \A k \in 1..Len(results[i].issues) :
    results[i].issues[k].check \in checks

\* Every issue with its check id in the given set is a WARN or an INFO.
NeverFail(checks) ==
  \A i \in 1..Len(results) : \A k \in 1..Len(results[i].issues) :
    results[i].issues[k].check \in checks => results[i].issues[k].level \in {"WARN", "INFO"}

\* C10 as stated: every issue of the structural and stylistic rules, pronoun lead
\* included, is a WARN or an INFO, so a corpus whose only findings come from
\* these rules exits with status 0.
C10_StyleRulesNeverFail ==
  /\ NeverFail(STYLE_CHECKS \cup {"section_pronoun"})
  /\ pc = "exited" /\ docs_dir /\ raised = "none"
       /\ OnlyFindings(STYLE_CHECKS \cup {"section_pronoun"})
       => exit_status = 0

\* C10 amended: every issue of the structural and stylistic rules other than
\* pronoun lead is a WARN or an INFO, and a corpus whose only findings come from
\* those rules exits with status 0; a pronoun lead is a FAIL.
C10_StyleRulesButPronounNeverFail ==
  /\ NeverFail(STYLE_CHECKS)
  /\ pc = "exited" /\ docs_dir /\ raised = "none" /\ OnlyFindings(STYLE_CHECKS)
       => exit_status = 0
  /\ \A i \in 1..Len(results) : \A k \in 1..Len(results[i].issues) :
       results[i].issues[k].check = "section_pronoun" => results[i].issues[k].level = "FAIL"

\* A scan whose findings are all stylistic, every such rule among them, and
\* which exited with status 0.
EveryStyleRuleReported ==
  /\ pc = "exited" /\ exit_status = 0
  /\ OnlyFindings(STYLE_CHECKS)
  /\ \A c \in STYLE_CHECKS : Reported(c)

(***************************************************************************)
(* Properties of the report, checked under Spec                            *)
(***************************************************************************)

\* The report was generated: the scan ran to its end and print_summary ran.
ReportGenerated == ScanComplete /\ report # <<>>

\* The enumerated files whose file name is the given one.
FilesNamed(name) == {p \in Glob(fs) : p[Len(p)] = name}

\* C15: in every generated report a file name is a key of duplicate_basenames if
\* and only if two or more validated files under the root have that exact name,
\* and its value lists the relative path of every such file, each exactly once; a
\* name used by a single file is no key.
C15_DuplicateBasenames ==
  ScanComplete =>
    /\ report # <<>>
    /\ \A name \in DOMAIN report.duplicate_basenames : FilesNamed(name) # {}
    /\ \A p \in Glob(fs) :
         LET name == p[Len(p)]
         IN /\ name \in DOMAIN report.duplicate_basenames
                 <=> Cardinality(FilesNamed(name)) >= 2
            /\ name \in DOMAIN report.duplicate_basenames =>
                 LET listed == report.duplicate_basenames[name]
                 IN /\ {listed[n] : n \in 1..Len(listed)}
                         = {PathStr(q) : q \in FilesNamed(name)}
                    /\ Len(listed) = Cardinality(FilesNamed(name))
    /\ report.summary.duplicate_basenames = Cardinality(DOMAIN report.duplicate_basenames)

\* A report for two files of the same name in different directories, listed
\* together under that name.
TwoFilesOneBasename ==
  /\ ReportGenerated
  /\ Glob(fs) = {<<N_A>>, <<N_DIR, N_A>>}
  /\ DOMAIN report.duplicate_basenames = {N_A}
  /\ Len(report.duplicate_basenames[N_A]) = 2

\* The results with neither a FAIL nor a WARN issue.
PassingResults == {i \in 1..Len(results) : ~has_failures(results[i]) /\ ~has_warnings(results[i])}

\* C16: in every generated report summary.files_passing is the number of
\* validated files that have neither a FAIL nor a WARN issue, so it is never
\* negative and does not undercount when a file has both.
C16_FilesPassingCountsCleanFiles ==
  ReportGenerated =>
    /\ report.summary.files_passing = Cardinality(PassingResults)
    /\ report.summary.files_passing >= 0

\* What holds of C16 in the code: files_passing is the number of files less the
\* files with a FAIL and less the files with a WARN, a file with both counted
\* twice.
FilesPassingInCode ==
  ReportGenerated =>
    report.summary.files_passing
      = Len(results)
          - Cardinality({i \in 1..Len(results) : has_failures(results[i])})
          - Cardinality({i \in 1..Len(results) : has_warnings(results[i])})

\* A report of one file that has a FAIL and a WARN: files_passing is -1.
FilesPassingNegative ==
  /\ ReportGenerated
  /\ Len(results) = 1 /\ has_failures(results[1]) /\ has_warnings(results[1])
  /\ report.summary.files_passing = -1

(***************************************************************************)
(* Properties of remove_empty_headings, checked under SpecRemove           *)
(***************************************************************************)

\* C11: remove_empty_headings is idempotent: applied to its own output it
\* returns that text unchanged and a removal count of 0.
C11_RemoveIdempotent ==
  applied = 2 =>
    /\ removed_count = 0
    /\ new_content = remove_empty_headings(content).new_content

\* The second application ran on the output of a first one that removed lines.
SecondRemovalAfterFirstRemoved ==
  /\ applied = 2
  /\ remove_empty_headings(content).count_removed >= 2

\* The lines that begin with '## ' and whose next non-blank line exists and
\* begins with '## ' as well.
DeletedLines(lines) ==
  {i \in 1..Len(lines) :
     /\ StartsWith(lines[i], H2)
     /\ \E j \in (i + 1)..Len(lines) :
          /\ StartsWith(lines[j], H2)
          /\ \A k \in (i + 1)..(j - 1) : Strip(lines[k]) = <<>>}

\* C12: remove_empty_headings returns the lines of its input without exactly
\* the '## ' lines whose next non-blank line exists and begins with '## ';
\* every other line is kept verbatim and in order, and the count is the number
\* of deleted lines.
C12_RemovesExactlyEmptyHeadings ==
  applied = 1 =>
    LET lines == Split(content)
        kept == SelectSeq([i \in 1..Len(lines) |-> i],
                          LAMBDA i : i \notin DeletedLines(lines))
    IN /\ Split(new_content) = [n \in 1..Len(kept) |-> lines[kept[n]]]
       /\ removed_count = Cardinality(DeletedLines(lines))

\* One call deleted a heading across a blank line and kept a level-2 heading
\* that only blank lines follow up to the end of the text.
DeletedAcrossBlankKeptTrailing ==
  LET lines == Split(content)
  IN /\ applied = 1
     /\ \E i \in DeletedLines(lines) : Strip(lines[i + 1]) = <<>>
     /\ \E i \in 1..(Len(lines) - 1) :
          /\ StartsWith(lines[i], H2)
          /\ \A k \in (i + 1)..Len(lines) : Strip(lines[k]) = <<>>
          /\ lines[i] \in {Split(new_content)[n] : n \in 1..Len(Split(new_content))}

(***************************************************************************)
(* Properties of process_file, checked under SpecProcess                   *)
(***************************************************************************)

\* C13: in dry-run mode process_file never writes the file and returns what
\* mutating mode returns for the same content; in mutating mode the file is
\* overwritten only when an empty heading was found, and then with the output
\* of remove_empty_headings on the content it read.
C13_DryRunNeverWrites ==
  applied = 1 =>
    LET original_content == ReadText(content)
        found == find_empty_headings(original_content)
    IN /\ dry_run => ~written /\ file = content
       /\ stats = process_file(content, FALSE).stats
       /\ stats.empty_count = Len(found) /\ stats.removed = Len(found)
       /\ ~dry_run => /\ written <=> found # <<>>
                      /\ written => file = remove_empty_headings(original_content).new_content
                      /\ ~written => file = content

\* A dry run reported empty headings in a file that a mutating run would rewrite.
DryRunFoundEmptyHeadings ==
  /\ applied = 1 /\ dry_run
  /\ stats.empty_count >= 1
  /\ process_file(content, FALSE).file # content

(***************************************************************************)
(* Properties of the bare-code-block rule, checked under SpecSections      *)
(***************************************************************************)

\* The numbers of the lines that are level-2, level-3 or level-4 headings and
\* are followed, with only whitespace in between, by a fence.
BareHeadingLines(text) ==
  LET lines == Split(text)
  IN SelectSeq([i \in 1..Len(lines) |-> i],
               LAMBDA i :
                 LET rest == Join(SubSeq(lines, i + 1, Len(lines)))
                     a == FirstNonSpace(rest, 1, Len(rest))
                 IN /\ HeadingLevel(lines[i]) \in 2..4
                    /\ i < Len(lines)
                    /\ a # 0
                    /\ At(rest, a, FENCE))

\* The headings the bare_code_block issues name, in the order of the issues.
BareCodeBlockHeadings(issue_list) ==
  LET bare == SelectSeq(issue_list, LAMBDA issue : issue.check = "bare_code_block")
  IN [k \in 1..Len(bare) |-> bare[k].texts[1]]

\* C14: in a document whose sections the loop walked, the bare_code_block WARNs
\* are one per level-2, level-3 or level-4 heading line that a fence follows
\* with only whitespace in between, and name no other line.
C14_BareCodeBlockPerHeading ==
  (outcome = "returned" /\ examined # <<>>) =>
    LET lines == Split(content)
        expected == BareHeadingLines(content)
    IN BareCodeBlockHeadings(issues) = [k \in 1..Len(expected) |-> Strip(lines[expected[k]])]

\* What the code does for a heading of level 5: the WARN names it.
BareCodeBlockNamesLevel5 ==
  /\ outcome = "returned" /\ examined # <<>>
  /\ \E k \in 1..Len(BareCodeBlockHeadings(issues)) :
       HeadingLevel(BareCodeBlockHeadings(issues)[k]) = 5

====
